---- MODULE Spec2Model ----
(***************************************************************************)
(* A model of json-lol (src/json.c): the arena allocator, the cursor, the  *)
(* escape decoder, the recursive-descent parser and the two entry points   *)
(* json_parse_sax (event mode) and json_parse_dom (tree mode).             *)
(*                                                                         *)
(* Characters are byte values.  One parse is one action: the C functions   *)
(* are operators over a record `p` that carries struct json_parser, the    *)
(* heap and the callback log; a longjmp in flight is the field `jmp`,      *)
(* which makes every later operation of the parse a no-op until the        *)
(* setjmp branch of json_parse_sax handles it.                             *)
(* A call of one function of json.c by another is written                  *)
(* Invoke("f", <<arguments>>); Invoke is defined after the functions.      *)
(***************************************************************************)
EXTENDS Integers, Sequences, FiniteSets, TLC

VARIABLES parser, heap, call, ncalls

vars == <<parser, heap, call, ncalls>>

(***************************************************************************)
(* Characters and <ctype.h>                                                *)
(***************************************************************************)
Ord ==
    "{" :> 123 @@ "}" :> 125 @@ "[" :> 91 @@ "]" :> 93 @@ "," :> 44 @@
    ":" :> 58 @@ "\"" :> 34 @@ "\\" :> 92 @@ "/" :> 47 @@ " " :> 32 @@
    "\t" :> 9 @@ "\n" :> 10 @@ "\r" :> 13 @@ "-" :> 45 @@ "+" :> 43 @@
    "." :> 46 @@ "0" :> 48 @@ "1" :> 49 @@ "2" :> 50 @@ "3" :> 51 @@
    "4" :> 52 @@ "5" :> 53 @@ "6" :> 54 @@ "7" :> 55 @@ "8" :> 56 @@
    "9" :> 57 @@ "A" :> 65 @@ "B" :> 66 @@ "C" :> 67 @@ "D" :> 68 @@
    "E" :> 69 @@ "F" :> 70 @@ "X" :> 88 @@ "a" :> 97 @@ "b" :> 98 @@
    "c" :> 99 @@ "d" :> 100 @@ "e" :> 101 @@ "f" :> 102 @@ "k" :> 107 @@
    "l" :> 108 @@ "n" :> 110 @@ "o" :> 111 @@ "p" :> 112 @@ "r" :> 114 @@
    "s" :> 115 @@ "t" :> 116 @@ "u" :> 117 @@ "x" :> 120

\* a C string literal, written as a tuple of one-character strings
Str(cs) == [i \in 1..Len(cs) |-> Ord[cs[i]]]

RECURSIVE Invoke(_, _)

NULL == 0

isdigit(c) == c \in 48..57
isxdigit(c) == c \in 48..57 \/ c \in 65..70 \/ c \in 97..102
iscntrl(c) == c \in 0..31 \/ c = 127
tolower(c) == IF c \in 65..90 THEN c + 32 ELSE c

\* the byte at 1-based offset i of the NUL-terminated text str
CharAt(str, i) == IF i \in 1..Len(str) THEN str[i] ELSE 0

(***************************************************************************)
(* Non-local exit                                                          *)
(***************************************************************************)
parse_error(p, msg) == [p EXCEPT !.error = msg, !.jmp = TRUE]

(***************************************************************************)
(* Arena: an intrusive doubly linked list of heap blocks.  A heap address  *)
(* is an index into p.heap; freed blocks stay in the sequence, marked dead.*)
(* p.budget is the number of malloc/realloc calls the C library still      *)
(* satisfies (-1: never fails); p.moves says whether realloc relocates.    *)
(***************************************************************************)
\* <limits.h>, <stdint.h> and sizeof, for a target with 16-bit size_t, int
\* and pointers (the smallest the C standard allows)
SIZE_MAX == 65535
SizeofAlloc == 4
SizeofNode == 12
SizeofValue == 10
SizeofPtr == 2
INT_MAX == 32767

Spend(p) == IF p.budget > 0 THEN p.budget - 1 ELSE p.budget

mem_alloc(p, size) ==
    IF p.jmp THEN p
    ELSE IF size > SIZE_MAX - SizeofAlloc
    THEN parse_error(p, <<"too large allocation">>)
    ELSE IF p.budget = 0
    THEN parse_error(p, <<"malloc failed">>)
    ELSE LET a == Len(p.heap) + 1
             blk == [live |-> TRUE, prev |-> NULL, next |-> p.alloc_head,
                     size |-> size, data |-> <<>>]
             h1 == Append(p.heap, blk)
             h2 == IF p.alloc_head # NULL
                   THEN [h1 EXCEPT ![p.alloc_head].prev = a]
                   ELSE h1
         IN  [p EXCEPT !.heap = h2, !.alloc_head = a, !.ret = a,
                       !.budget = Spend(p)]

\* mem_realloc without the update of p->alloc_head (line 107)
mem_realloc_stale_head(p, ptr, size) ==
    IF p.jmp THEN p
    ELSE IF ptr = NULL THEN Invoke("mem_alloc", <<p, size>>)
    ELSE IF p.budget = 0
    THEN parse_error(p, <<"realloc failed">>)
    ELSE LET a == ptr
             new == IF p.moves THEN Len(p.heap) + 1 ELSE a
             blk == [p.heap[a] EXCEPT !.size = size]
             h1 == IF p.moves
                   THEN Append([p.heap EXCEPT ![a].live = FALSE], blk)
                   ELSE [p.heap EXCEPT ![a] = blk]
             h2 == IF blk.next # NULL
                   THEN [h1 EXCEPT ![blk.next].prev = new] ELSE h1
             h3 == IF blk.prev # NULL
                   THEN [h2 EXCEPT ![blk.prev].next = new] ELSE h2
         IN  [p EXCEPT !.heap = h3, !.ret = new, !.budget = Spend(p)]

mem_realloc(p, ptr, size) ==
    IF p.jmp THEN p
    ELSE IF ptr = NULL THEN Invoke("mem_alloc", <<p, size>>)
    ELSE IF p.budget = 0
    THEN parse_error(p, <<"realloc failed">>)
    ELSE LET a == ptr
             new == IF p.moves THEN Len(p.heap) + 1 ELSE a
             blk == [p.heap[a] EXCEPT !.size = size]
             h1 == IF p.moves
                   THEN Append([p.heap EXCEPT ![a].live = FALSE], blk)
                   ELSE [p.heap EXCEPT ![a] = blk]
             h2 == IF blk.next # NULL
                   THEN [h1 EXCEPT ![blk.next].prev = new] ELSE h1
             h3 == IF blk.prev # NULL
                   THEN [h2 EXCEPT ![blk.prev].next = new] ELSE h2
         IN  [p EXCEPT !.heap = h3,
                       !.alloc_head = IF p.alloc_head = a THEN new ELSE @,
                       !.ret = new, !.budget = Spend(p)]

\* free() of every block on the list; freeing a dead block is a fault
RECURSIVE free_list(_, _)
free_list(h, curr) ==
    IF curr = NULL THEN [heap |-> h, fault |-> {}]
    ELSE IF ~h[curr].live THEN [heap |-> h, fault |-> {"double free"}]
    ELSE free_list([h EXCEPT ![curr].live = FALSE], h[curr].next)

free_allocs(p) ==
    LET r == free_list(p.heap, p.alloc_head)
    IN  [p EXCEPT !.heap = r.heap, !.alloc_head = NULL,
                  !.fault = @ \cup r.fault]

(***************************************************************************)
(* Cursor                                                                  *)
(***************************************************************************)
\* skip_space counting the line feed after a carriage return as a line of
\* its own
skip_space_crlf_twice(p) ==
    LET c == CharAt(p.str, p.pos)
    IN  IF c = Ord["\n"]
        THEN Invoke("skip_space", <<[p EXCEPT !.line = @ + 1, !.pos = @ + 1]>>)
        ELSE IF c = Ord["\r"]
        THEN Invoke("skip_space", <<[p EXCEPT !.line = @ + 1,
                 !.pos = @ + 1]>>)
        ELSE IF c = Ord["\t"] \/ c = Ord[" "]
        THEN Invoke("skip_space", <<[p EXCEPT !.pos = @ + 1]>>)
        ELSE p

skip_space(p) ==
    LET c == CharAt(p.str, p.pos)
    IN  IF c = Ord["\n"]
        THEN Invoke("skip_space", <<[p EXCEPT !.line = @ + 1, !.pos = @ + 1]>>)
        ELSE IF c = Ord["\r"]
        THEN Invoke("skip_space", <<[p EXCEPT !.line = @ + 1,
                 !.pos = IF CharAt(p.str, p.pos + 1) = Ord["\n"]
                         THEN @ + 2 ELSE @ + 1]>>)
        ELSE IF c = Ord["\t"] \/ c = Ord[" "]
        THEN Invoke("skip_space", <<[p EXCEPT !.pos = @ + 1]>>)
        ELSE p

next(p) == CharAt(p.str, p.pos)

\* returns the consumed character in p.ch
consume(p) ==
    IF p.jmp THEN p
    ELSE LET q == [p EXCEPT !.ch = CharAt(p.str, p.pos), !.pos = @ + 1,
                     !.fault = IF p.pos > Len(p.str)
                               THEN @ \cup {"read past terminator"} ELSE @]
         IN  IF q.skip_space = 1 THEN Invoke("skip_space", <<q>>) ELSE q

unexpected_token(p) ==
    IF p.jmp THEN p
    ELSE IF next(p) = 0
    THEN parse_error(p, <<"unexpected end of input">>)
    ELSE parse_error(p, <<"unexpected token", next(p)>>)
\* expect consuming the character it matched even when that is the
\* terminator
expect_terminator_consumed(p, ch) ==
    IF p.jmp THEN p
    ELSE IF next(p) # ch
    THEN parse_error(p, <<"unexpected token, expected", next(p), ch>>)
    ELSE Invoke("consume", <<p>>)

expect(p, ch) ==
    IF p.jmp THEN p
    ELSE IF next(p) # ch
    THEN parse_error(p, <<"unexpected token, expected", next(p), ch>>)
    ELSE IF ch # 0 THEN Invoke("consume", <<p>>) ELSE p

(***************************************************************************)
(* Escape decoder and UTF-8 encoder                                        *)
(***************************************************************************)
RECURSIVE BitAnd(_, _)
BitAnd(a, b) ==
    IF a = 0 \/ b = 0 THEN 0
    ELSE (a % 2) * (b % 2) + 2 * BitAnd(a \div 2, b \div 2)

BitOr(a, b) == a + b - BitAnd(a, b)

RECURSIVE Pow2(_)
Pow2(n) == IF n = 0 THEN 1 ELSE 2 * Pow2(n - 1)

Shr(a, n) == a \div Pow2(n)

\* the loop of parse_hexquad; the result is left in p.ret
hexquad_loop(p, i, val) ==
    IF p.jmp THEN p
    ELSE IF i = 4 THEN [p EXCEPT !.ret = val]
    ELSE IF ~isxdigit(next(p)) THEN Invoke("unexpected_token", <<p>>)
    ELSE LET q == Invoke("consume", <<p>>)
             shifted == (val * 16) % 65536
             d == IF Ord["0"] <= q.ch /\ q.ch <= Ord["9"]
                  THEN q.ch - Ord["0"]
                  ELSE 10 + tolower(q.ch) - Ord["a"]
         IN  Invoke("hexquad_loop", <<q, i + 1, BitOr(shifted, d)>>)

parse_hexquad(p) == Invoke("hexquad_loop", <<p, 0, 0>>)

\* the decoded code unit is left in p.ret
parse_escaped_char(p) ==
    LET q == Invoke("expect", <<p, Ord["\\"]>>)
        c == next(q)
        simple(ch) == [Invoke("consume", <<q>>) EXCEPT !.ret = ch]
    IN  IF q.jmp THEN q
        ELSE IF c = Ord["\""] THEN simple(Ord["\""])
        ELSE IF c = Ord["\\"] THEN simple(Ord["\\"])
        ELSE IF c = Ord["/"] THEN simple(Ord["/"])
        ELSE IF c = Ord["b"] THEN simple(8)
        ELSE IF c = Ord["f"] THEN simple(12)
        ELSE IF c = Ord["n"] THEN simple(10)
        ELSE IF c = Ord["r"] THEN simple(13)
        ELSE IF c = Ord["t"] THEN simple(9)
        ELSE IF c = Ord["u"] THEN Invoke("parse_hexquad", <<Invoke("consume", <<q>>)>>)
        ELSE Invoke("unexpected_token", <<q>>)

\* encode_one writing the 6-bit groups that follow the first byte least
\* significant first
encode_one_low_first(ch) ==
    LET t == IF ch >= 65536 THEN 3 ELSE IF ch >= 2048 THEN 2
             ELSE IF ch >= 128 THEN 1 ELSE 0
        bm == IF ch >= 65536 THEN 240 ELSE IF ch >= 2048 THEN 224
              ELSE IF ch >= 128 THEN 192 ELSE 0
    IN  <<BitOr(bm, BitAnd(Shr(ch, 6 * t), 127)) % 256>> \o
        [j \in 1..t |->
            BitOr(128, BitAnd(Shr(ch, 6 * (j - 1)), 191)) % 256]

\* the bytes encode_utf8 writes for one code point (a char keeps 8 bits)
encode_one(ch) ==
    LET t == IF ch >= 65536 THEN 3 ELSE IF ch >= 2048 THEN 2
             ELSE IF ch >= 128 THEN 1 ELSE 0
        bm == IF ch >= 65536 THEN 240 ELSE IF ch >= 2048 THEN 224
              ELSE IF ch >= 128 THEN 192 ELSE 0
    IN  <<BitOr(bm, BitAnd(Shr(ch, 6 * t), 127)) % 256>> \o
        [j \in 1..t |->
            BitOr(128, BitAnd(Shr(ch, 6 * (t - j)), 191)) % 256]

RECURSIVE encode_utf8(_)
encode_utf8(src) ==
    IF src = <<>> THEN <<>>
    ELSE encode_one(Head(src)) \o encode_utf8(Tail(src))

(***************************************************************************)
(* Bytes above 0x7F.  The input is an array of char, a byte is held here   *)
(* as 0..255, and whether char is signed is the build's choice             *)
(* (p.char_signed).  On a build with signed char such a byte is a negative *)
(* char: passing it to a <ctype.h> function is undefined, so the answer is *)
(* either one (p.ctype_neg), and converting it to unsigned int gives       *)
(* 2^32 - 256 + c.  encode_utf8 reads only bits 0..24 of a code point      *)
(* that is 0x10000 or more, so the converted value is kept modulo          *)
(* UINT_KEPT, which leaves those bits and the comparisons as they are.     *)
(***************************************************************************)
UINT_KEPT == 1073741824

\* iscntrl(next(p)) of line 254
iscntrl_char(p, c) ==
    IF p.char_signed /\ c >= 128 THEN p.ctype_neg ELSE iscntrl(c)

\* the conversion of `buf[0] = consume(p)`, char to unsigned int
char_to_uint(p, c) ==
    IF p.char_signed /\ c >= 128 THEN UINT_KEPT - 256 + c ELSE c

(***************************************************************************)
(* parse_raw_string                                                        *)
(***************************************************************************)
IsHighSurrogate(u) == u >= 55296 /\ u <= 56319
IsLowSurrogate(u) == u >= 56320 /\ u <= 57343

\* string_char combining a pair without the 0x10000 offset of the
\* supplementary planes
string_char_plain_offset(p) ==
    IF next(p) = Ord["\\"]
    THEN LET e1 == Invoke("parse_escaped_char", <<p>>)
             b0 == e1.ret
         IN  IF e1.jmp THEN e1
             ELSE IF IsHighSurrogate(b0)
             THEN IF next(e1) = Ord["\\"]
                  THEN LET e2 == Invoke("parse_escaped_char", <<e1>>)
                           b1 == e2.ret
                           pair == b0 * 1024 + b1 - 56623104 - 56320
                       IN  IF e2.jmp THEN e2
                           ELSE IF IsLowSurrogate(b1)
                           THEN [e2 EXCEPT !.ret = <<pair>>,
                                    !.fault = IF pair <= 1114111 THEN @
                                        ELSE @ \cup {"assert buf[0] <= 0x10ffff"}]
                           ELSE [e2 EXCEPT !.ret = <<65533, b1>>]
                  ELSE [e1 EXCEPT !.ret = <<65533>>]
             ELSE IF IsLowSurrogate(b0)
             THEN [e1 EXCEPT !.ret = <<65533>>]
             ELSE [e1 EXCEPT !.ret = <<b0>>]
    ELSE IF iscntrl_char(p, next(p)) THEN Invoke("unexpected_token", <<p>>)
    ELSE LET q == Invoke("consume", <<p>>)
         IN  [q EXCEPT !.ret = <<char_to_uint(p, q.ch)>>]

\* one iteration's switch (lines 231-258): the code points buf[0..chars-1]
\* are left in p.ret
string_char(p) ==
    IF next(p) = Ord["\\"]
    THEN LET e1 == Invoke("parse_escaped_char", <<p>>)
             b0 == e1.ret
         IN  IF e1.jmp THEN e1
             ELSE IF IsHighSurrogate(b0)
             THEN IF next(e1) = Ord["\\"]
                  THEN LET e2 == Invoke("parse_escaped_char", <<e1>>)
                           b1 == e2.ret
                           pair == b0 * 1024 + b1 - 56613888
                       IN  IF e2.jmp THEN e2
                           ELSE IF IsLowSurrogate(b1)
                           THEN [e2 EXCEPT !.ret = <<pair>>,
                                    !.fault = IF pair <= 1114111 THEN @
                                        ELSE @ \cup {"assert buf[0] <= 0x10ffff"}]
                           ELSE [e2 EXCEPT !.ret = <<65533, b1>>]
                  ELSE [e1 EXCEPT !.ret = <<65533>>]
             ELSE IF IsLowSurrogate(b0)
             THEN [e1 EXCEPT !.ret = <<65533>>]
             ELSE [e1 EXCEPT !.ret = <<b0>>]
    ELSE IF iscntrl_char(p, next(p)) THEN Invoke("unexpected_token", <<p>>)
    ELSE LET q == Invoke("consume", <<p>>)
         IN  [q EXCEPT !.ret = <<char_to_uint(p, q.ch)>>]

\* the locals of parse_raw_string: alloc, len, ret and the bytes written
\* at ret[0..len-1]; the loop leaves them in p.ret
string_loop(p, L) ==
    IF p.jmp THEN p
    ELSE IF next(p) = Ord["\""] THEN [p EXCEPT !.ret = L]
    ELSE LET c == Invoke("string_char", <<p>>)
             buf == c.ret
             grow == L.len > L.alloc - 6 - 1
             alloc2 == IF grow THEN Shr(L.alloc * 3, 1) ELSE L.alloc
             g == IF ~grow THEN [c EXCEPT !.ret = L.ret]
                  ELSE IF L.alloc > SIZE_MAX \div 3
                  THEN parse_error(c, <<"too long string">>)
                  ELSE Invoke("mem_realloc", <<c, L.ret, alloc2>>)
             bytes == encode_utf8(buf)
             len2 == L.len + Len(bytes)
         IN  IF c.jmp THEN c
             ELSE IF g.jmp THEN g
             ELSE Invoke("string_loop", <<
                    [g EXCEPT !.fault = IF len2 <= alloc2 THEN @
                                        ELSE @ \cup {"buffer overrun"}],
                    [alloc |-> alloc2, len |-> len2, ret |-> g.ret,
                     data |-> L.data \o bytes]>>)

\* returns the address of the decoded, NUL-terminated text in p.ret
parse_raw_string(p) ==
    LET m == Invoke("mem_alloc", <<p, 16>>)
        q == Invoke("expect", <<m, Ord["\""]>>)
        r == Invoke("string_loop", <<[q EXCEPT !.skip_space = 0],
                 [alloc |-> 16, len |-> 0, ret |-> m.ret, data |-> <<>>]>>)
        L == r.ret
        e == Invoke("consume", <<[r EXCEPT !.skip_space = 1]>>)
    IN  IF p.jmp THEN p
        ELSE IF m.jmp THEN m
        ELSE IF q.jmp THEN q
        ELSE IF r.jmp THEN r
        ELSE [e EXCEPT !.heap[L.ret].data = L.data, !.ret = L.ret,
                 !.fault = IF L.alloc > L.len THEN @
                           ELSE @ \cup {"assert alloc > len"}]

(***************************************************************************)
(* Callbacks.  Every invocation through p->cb is appended to p.events with *)
(* the offset `at` of the input character it reports.  In event mode       *)
(* (p.cb = "sax") the callbacks are the caller's; in tree mode             *)
(* (p.cb = "dom") they are the static functions of json.c, which build the *)
(* tree in the arena.  A json_node is a heap block whose data is a Node;   *)
(* p.nodes lists the nodes in the order on_node received them.             *)
(***************************************************************************)
Node(type) ==
    [parent |-> NULL, type |-> type, boolean |-> 0, number |-> <<>>,
     string |-> NULL, items |-> NULL, num |-> 0]

Log(p, name, at, arg) ==
    [p EXCEPT !.events = Append(@, [cb |-> name, at |-> at, arg |-> arg])]

\* on_node storing the new child in front of its siblings
on_node_prepend(p, node) ==
    LET parent_node == p.ctx.curr
        q == [p EXCEPT !.heap[node].data.parent = parent_node,
                       !.nodes = Append(@, node)]
        parent == q.heap[parent_node].data
        isArr == parent.type = "JSON_ARRAY"
        k == [q EXCEPT !.fault = IF isArr \/ q.ctx.key # NULL THEN @
                                 ELSE @ \cup {"assert ctx->key"}]
        size == IF isArr THEN SizeofPtr ELSE 2 * SizeofPtr
        r == Invoke("mem_realloc",
                    <<k, parent.items, size * (parent.num + 1)>>)
        item == IF isArr THEN node
                ELSE [name |-> q.ctx.key, value |-> node]
    IN  IF p.jmp THEN p
        ELSE IF parent_node = NULL
        THEN [q EXCEPT !.ctx.root = node,
                 !.fault = IF q.ctx.root = NULL THEN @
                           ELSE @ \cup {"assert !ctx->root"}]
        ELSE IF parent.type \notin {"JSON_ARRAY", "JSON_OBJECT"}
        THEN [q EXCEPT !.fault = @ \cup {"assert unexpected json-type"}]
        ELSE IF parent.num = INT_MAX \div SizeofPtr
        THEN parse_error(q, IF isArr THEN <<"too big array">>
                            ELSE <<"too big object">>)
        ELSE IF r.jmp THEN r
        ELSE [r EXCEPT !.heap[parent_node].data.items = r.ret,
                 !.heap[parent_node].data.num = @ + 1,
                 !.heap[r.ret].data = <<item>> \o @,
                 !.ctx.key = IF isArr THEN @ ELSE NULL]

on_node(p, node) ==
    LET parent_node == p.ctx.curr
        q == [p EXCEPT !.heap[node].data.parent = parent_node,
                       !.nodes = Append(@, node)]
        parent == q.heap[parent_node].data
        isArr == parent.type = "JSON_ARRAY"
        k == [q EXCEPT !.fault = IF isArr \/ q.ctx.key # NULL THEN @
                                 ELSE @ \cup {"assert ctx->key"}]
        size == IF isArr THEN SizeofPtr ELSE 2 * SizeofPtr
        r == Invoke("mem_realloc",
                    <<k, parent.items, size * (parent.num + 1)>>)
        item == IF isArr THEN node
                ELSE [name |-> q.ctx.key, value |-> node]
    IN  IF p.jmp THEN p
        ELSE IF parent_node = NULL
        THEN [q EXCEPT !.ctx.root = node,
                 !.fault = IF q.ctx.root = NULL THEN @
                           ELSE @ \cup {"assert !ctx->root"}]
        ELSE IF parent.type \notin {"JSON_ARRAY", "JSON_OBJECT"}
        THEN [q EXCEPT !.fault = @ \cup {"assert unexpected json-type"}]
        ELSE IF parent.num = INT_MAX \div SizeofPtr
        THEN parse_error(q, IF isArr THEN <<"too big array">>
                            ELSE <<"too big object">>)
        ELSE IF r.jmp THEN r
        ELSE [r EXCEPT !.heap[parent_node].data.items = r.ret,
                 !.heap[parent_node].data.num = @ + 1,
                 !.heap[r.ret].data = Append(@, item),
                 !.ctx.key = IF isArr THEN @ ELSE NULL]

\* on_null, on_boolean, on_number, on_string: allocate a node, fill it in,
\* link it
dom_scalar(p, node0) ==
    LET m == Invoke("mem_alloc", <<p, SizeofNode>>)
    IN  IF m.jmp THEN m
        ELSE Invoke("on_node", <<[m EXCEPT !.heap[m.ret].data = node0], m.ret>>)

\* on_array_start, on_object_start
dom_start(p, type) ==
    LET m == Invoke("mem_alloc", <<p, SizeofNode>>)
        n == Invoke("on_node", <<[m EXCEPT !.heap[m.ret].data = Node(type)], m.ret>>)
    IN  IF m.jmp THEN m
        ELSE IF n.jmp THEN n
        ELSE [n EXCEPT !.ctx.curr = m.ret]

\* on_array_end, on_object_end leaving the closed container current
dom_end_keep(p) ==
    IF p.ctx.curr = NULL
    THEN [p EXCEPT !.fault = @ \cup {"assert ctx->curr != NULL"}]
    ELSE p

\* on_array_end, on_object_end
dom_end(p) ==
    IF p.ctx.curr = NULL
    THEN [p EXCEPT !.fault = @ \cup {"assert ctx->curr != NULL"}]
    ELSE [p EXCEPT !.ctx.curr = p.heap[p.ctx.curr].data.parent]

cb_on_null(p, at) ==
    LET q == Log(p, "on_null", at, <<>>)
    IN  IF p.jmp THEN p
        ELSE IF p.cb = "dom" THEN Invoke("dom_scalar", <<q, Node("JSON_NULL")>>) ELSE q

cb_on_boolean(p, at, b) ==
    LET q == Log(p, "on_boolean", at, b)
    IN  IF p.jmp THEN p
        ELSE IF p.cb = "dom"
        THEN Invoke("dom_scalar", <<q, [Node("JSON_BOOLEAN") EXCEPT !.boolean = b]>>)
        ELSE q

cb_on_number(p, at, number) ==
    LET q == Log(p, "on_number", at, number)
    IN  IF p.jmp THEN p
        ELSE IF p.cb = "dom"
        THEN Invoke("dom_scalar", <<q, [Node("JSON_NUMBER") EXCEPT !.number = number]>>)
        ELSE q

cb_on_string(p, at, string) ==
    LET q == Log(p, "on_string", at, p.heap[string].data)
    IN  IF p.jmp THEN p
        ELSE IF p.cb = "dom"
        THEN Invoke("dom_scalar", <<q, [Node("JSON_STRING") EXCEPT !.string = string]>>)
        ELSE q

cb_on_key(p, at, key) ==
    LET q == Log(p, "on_key", at, p.heap[key].data)
    IN  IF p.jmp THEN p
        ELSE IF p.cb = "dom" THEN [q EXCEPT !.ctx.key = key] ELSE q

cb_on_array_start(p, at) ==
    LET q == Log(p, "on_array_start", at, <<>>)
    IN  IF p.jmp THEN p
        ELSE IF p.cb = "dom" THEN Invoke("dom_start", <<q, "JSON_ARRAY">>) ELSE q

cb_on_array_end(p, at) ==
    LET q == Log(p, "on_array_end", at, <<>>)
    IN  IF p.jmp THEN p
        ELSE IF p.cb = "dom" THEN Invoke("dom_end", <<q>>) ELSE q

cb_on_object_start(p, at) ==
    LET q == Log(p, "on_object_start", at, <<>>)
    IN  IF p.jmp THEN p
        ELSE IF p.cb = "dom" THEN Invoke("dom_start", <<q, "JSON_OBJECT">>) ELSE q

cb_on_object_end(p, at) ==
    LET q == Log(p, "on_object_end", at, <<>>)
    IN  IF p.jmp THEN p
        ELSE IF p.cb = "dom" THEN Invoke("dom_end", <<q>>) ELSE q

(***************************************************************************)
(* strtod of <stdlib.h> on the text at offset start: the offset just past  *)
(* the longest prefix that is a decimal or hexadecimal floating constant   *)
(* (start itself when there is none).  The texts parse_number hands over   *)
(* begin with an optional '-' and a digit.                                 *)
(***************************************************************************)
RECURSIVE Span(_, _, _)
Span(str, i, S) == IF CharAt(str, i) \in S THEN Span(str, i + 1, S) ELSE i

Digits == 48..57
HexDigits == Digits \cup (65..70) \cup (97..102)

\* an exponent part introduced by a character of `marks` at offset i, if any
ExpEnd(str, i, marks) ==
    LET j == IF CharAt(str, i + 1) \in {Ord["+"], Ord["-"]}
             THEN i + 2 ELSE i + 1
    IN  IF CharAt(str, i) \in marks /\ CharAt(str, j) \in Digits
        THEN Span(str, j, Digits) ELSE i

\* a mantissa of digits of D with an optional '.', at offset i
MantEnd(str, i, D) ==
    LET i1 == Span(str, i, D)
        i2 == IF CharAt(str, i1) = Ord["."]
              THEN Span(str, i1 + 1, D) ELSE i1
    IN  IF i1 > i \/ i2 > i1 + 1 THEN i2 ELSE i

strtod_end(str, start) ==
    LET s1 == IF CharAt(str, start) \in {Ord["+"], Ord["-"]}
              THEN start + 1 ELSE start
        hex == /\ CharAt(str, s1) = Ord["0"]
               /\ CharAt(str, s1 + 1) \in {Ord["x"], Ord["X"]}
               /\ MantEnd(str, s1 + 2, HexDigits) > s1 + 2
        hm == MantEnd(str, s1 + 2, HexDigits)
        dm == MantEnd(str, s1, Digits)
    IN  IF hex THEN ExpEnd(str, hm, {Ord["p"], 80})
        ELSE IF dm > s1 THEN ExpEnd(str, dm, {Ord["e"], Ord["E"]})
        ELSE start

(***************************************************************************)
(* Grammar                                                                 *)
(***************************************************************************)

parse_string(p) ==
    LET s == Invoke("parse_raw_string", <<p>>)
    IN  Invoke("cb_on_string", <<s, p.pos, s.ret>>)

\* object_loop reporting the key after its value
object_loop_key_late(p) ==
    LET s == Invoke("parse_raw_string", <<p>>)
        v == Invoke("parse_value", <<Invoke("expect", <<s, Ord[":"]>>)>>)
        k == Invoke("cb_on_key", <<v, p.pos, s.ret>>)
    IN  IF p.jmp THEN p
        ELSE IF k.jmp THEN k
        ELSE IF next(k) = Ord["}"] THEN k
        ELSE Invoke("object_loop", <<Invoke("expect", <<k, Ord[","]>>)>>)

object_loop(p) ==
    LET s == Invoke("parse_raw_string", <<p>>)
        k == Invoke("cb_on_key", <<s, p.pos, s.ret>>)
        v == Invoke("parse_value", <<Invoke("expect", <<k, Ord[":"]>>)>>)
    IN  IF p.jmp THEN p
        ELSE IF v.jmp THEN v
        ELSE IF next(v) = Ord["}"] THEN v
        ELSE Invoke("object_loop", <<Invoke("expect", <<v, Ord[","]>>)>>)

parse_object(p) ==
    LET a == Invoke("cb_on_object_start", <<Invoke("expect", <<p, Ord["{"]>>), p.pos>>)
        l == Invoke("object_loop", <<a>>)
    IN  IF a.jmp THEN a
        ELSE IF next(a) = Ord["}"]
        THEN Invoke("cb_on_object_end", <<Invoke("consume", <<a>>), a.pos>>)
        ELSE Invoke("cb_on_object_end", <<Invoke("consume", <<l>>), l.pos>>)

array_loop(p) ==
    LET v == Invoke("parse_value", <<p>>)
    IN  IF v.jmp THEN v
        ELSE IF next(v) = Ord["]"] THEN v
        ELSE Invoke("array_loop", <<Invoke("expect", <<v, Ord[","]>>)>>)

parse_array(p) ==
    LET a == Invoke("cb_on_array_start", <<Invoke("expect", <<p, Ord["["]>>), p.pos>>)
        l == Invoke("array_loop", <<a>>)
    IN  IF a.jmp THEN a
        ELSE IF next(a) = Ord["]"]
        THEN Invoke("cb_on_array_end", <<Invoke("consume", <<a>>), a.pos>>)
        ELSE Invoke("cb_on_array_end", <<Invoke("consume", <<l>>), l.pos>>)

\* while (isdigit(next(p))) consume(p);
digits_loop(p) ==
    IF p.jmp THEN p
    ELSE IF isdigit(next(p))
    THEN Invoke("digits_loop", <<Invoke("consume", <<p>>)>>)
    ELSE p

\* p.scans lists, for every call of on_number, the offset of the first
\* character of the literal and the offset of the cursor after the scan
parse_number(p) ==
    LET start == p.pos
        sign == IF next(p) = Ord["-"] THEN Invoke("consume", <<p>>) ELSE p
        d0 == IF ~isdigit(next(sign)) THEN Invoke("unexpected_token", <<sign>>)
              ELSE Invoke("consume", <<sign>>)
        int == IF d0.jmp \/ d0.ch = Ord["0"] THEN d0 ELSE Invoke("digits_loop", <<d0>>)
        dot == Invoke("consume", <<int>>)
        frac == IF int.jmp \/ next(int) # Ord["."] THEN int
                ELSE IF ~isdigit(next(dot)) THEN Invoke("unexpected_token", <<dot>>)
                ELSE Invoke("digits_loop", <<dot>>)
        e0 == Invoke("consume", <<frac>>)
        e1 == IF next(e0) = Ord["+"] \/ next(e0) = Ord["-"]
              THEN Invoke("consume", <<e0>>) ELSE e0
        exp == IF frac.jmp \/ tolower(next(frac)) # Ord["e"] THEN frac
               ELSE IF ~isdigit(next(e1)) THEN Invoke("unexpected_token", <<e1>>)
               ELSE Invoke("digits_loop", <<e1>>)
        end == strtod_end(p.str, start)
    IN  IF exp.jmp THEN exp
        ELSE IF end = start THEN parse_error(exp, <<"strtod failed">>)
        ELSE Invoke("cb_on_number",
                    <<[exp EXCEPT !.scans = Append(@, <<start, exp.pos>>)],
                      start, SubSeq(p.str, start, end - 1)>>)

\* for (i = 1; i < len; ++i) expect(p, str[i]);
keyword_loop(p, str, i) ==
    IF p.jmp \/ i > Len(str) THEN p
    ELSE Invoke("keyword_loop", <<Invoke("expect", <<p, str[i]>>), str, i + 1>>)

parse_keyword(p, str) ==
    LET q == [Invoke("consume", <<p>>) EXCEPT
                !.fault = IF next(p) = str[1] THEN @
                          ELSE @ \cup {"assert next(p) == str[0]"}]
    IN  Invoke("mem_alloc", <<Invoke("keyword_loop", <<q, str, 2>>), SizeofValue>>)

parse_value(p) ==
    LET c == next(p)
    IN  IF p.jmp THEN p
        ELSE IF c = Ord["{"] THEN Invoke("parse_object", <<p>>)
        ELSE IF c = Ord["["] THEN Invoke("parse_array", <<p>>)
        ELSE IF c = Ord["\""] THEN Invoke("parse_string", <<p>>)
        ELSE IF c = Ord["-"] \/ isdigit(c) THEN Invoke("parse_number", <<p>>)
        ELSE IF c = Ord["t"]
        THEN Invoke("cb_on_boolean",
                 <<Invoke("parse_keyword", <<p, Str(<<"t", "r", "u", "e">>)>>),
                   p.pos, 1>>)
        ELSE IF c = Ord["f"]
        THEN Invoke("cb_on_boolean",
                 <<Invoke("parse_keyword",
                          <<p, Str(<<"f", "a", "l", "s", "e">>)>>),
                   p.pos, 0>>)
        ELSE IF c = Ord["n"]
        THEN Invoke("cb_on_null",
                 <<Invoke("parse_keyword", <<p, Str(<<"n", "u", "l", "l">>)>>),
                   p.pos>>)
        ELSE Invoke("unexpected_token", <<p>>)

(***************************************************************************)
(* Entry points, as operators over the record of one parse                 *)
(***************************************************************************)
\* static on_error of tree mode: calls through ctx->on_err, NULL or not.
\* A call through a null pointer is undefined: p.nullcall is what the build
\* makes of it, "trap" (the process is killed) or "return".
dom_on_error(p) ==
    IF p.ctx.on_err # NULL
    THEN [p EXCEPT !.err_calls = Append(@, [line |-> p.line, msg |-> p.error])]
    ELSE [p EXCEPT !.fault = @ \cup {"call through null pointer"},
                   !.trapped = p.nullcall = "trap"]

cb_on_error(p) ==
    LET q == Log(p, "on_error", p.pos, [line |-> p.line, msg |-> p.error])
    IN  IF p.cb = "dom" THEN Invoke("dom_on_error", <<q>>) ELSE q

\* the record a parse call starts from: struct json_parser p, the heap, the
\* arguments (str, cb, user) and what the C library will do (env)
Start(P, h, str, cb, has_on_error, on_err, env) ==
    [str |-> str, pos |-> 1, line |-> P.line, skip_space |-> P.skip_space,
     error |-> P.error, alloc_head |-> P.alloc_head, heap |-> h,
     cb |-> cb, has_on_error |-> has_on_error,
     ctx |-> [curr |-> NULL, root |-> NULL, key |-> NULL, on_err |-> on_err],
     budget |-> env.budget, moves |-> env.moves, nullcall |-> env.nullcall,
     char_signed |-> env.char_signed, ctype_neg |-> env.ctype_neg,
     jmp |-> FALSE, trapped |-> FALSE, ret |-> 0, ch |-> 0, rc |-> 0,
     head0 |-> NULL,
     events |-> <<>>, err_calls |-> <<>>, fault |-> {}, nodes |-> <<>>,
     scans |-> <<>>]

\* json_parse_sax releasing the arena before it parses
json_parse_sax_resetting(p) ==
    LET f == Invoke("free_allocs", <<p>>)
        s == Invoke("skip_space", <<[f EXCEPT !.skip_space = 1, !.line = 1,
                            !.head0 = f.alloc_head]>>)
        r == Invoke("expect", <<Invoke("parse_value", <<s>>), 0>>)
        e == IF r.has_on_error THEN Invoke("cb_on_error", <<r>>) ELSE r
    IN  IF ~r.jmp THEN [r EXCEPT !.rc = 0]
        ELSE IF e.trapped THEN e
        ELSE [Invoke("free_allocs", <<e>>) EXCEPT !.rc = 0 - 1]

\* json_parse_sax without the call of cb->on_error (lines 456-457)
json_parse_sax_unreported(p) ==
    LET s == Invoke("skip_space", <<[p EXCEPT !.skip_space = 1, !.line = 1,
                            !.head0 = p.alloc_head]>>)
        r == Invoke("expect", <<Invoke("parse_value", <<s>>), 0>>)
    IN  IF ~r.jmp THEN [r EXCEPT !.rc = 0]
        ELSE [Invoke("free_allocs", <<r>>) EXCEPT !.rc = 0 - 1]

\* p.rc is the value returned; p.head0 records the block list the parse
\* starts with
json_parse_sax(p) ==
    LET s == Invoke("skip_space", <<[p EXCEPT !.skip_space = 1, !.line = 1,
                            !.head0 = p.alloc_head]>>)
        r == Invoke("expect", <<Invoke("parse_value", <<s>>), 0>>)
        e == IF r.has_on_error THEN Invoke("cb_on_error", <<r>>) ELSE r
    IN  IF ~r.jmp THEN [r EXCEPT !.rc = 0]
        ELSE IF e.trapped THEN e
        ELSE [Invoke("free_allocs", <<e>>) EXCEPT !.rc = 0 - 1]

\* the value returned is left in p.ret (NULL or the address of the root)
json_parse_dom(p) ==
    LET r == Invoke("json_parse_sax", <<p>>)
    IN  IF r.trapped THEN r
        ELSE IF r.rc < 0 THEN [r EXCEPT !.ret = NULL]
        ELSE [r EXCEPT !.ret = r.ctx.root,
                 !.fault = IF r.ctx.root # NULL THEN @
                           ELSE @ \cup {"assert ctx.root != NULL"}]

(***************************************************************************)
(* Function calls.  A call names its callee: Invoke(f, a) is the call      *)
(* f(a[1], ..., a[n]) of the C code, with the same arguments in the same   *)
(* order.                                                                  *)
(***************************************************************************)
Invoke(f, a) ==
    CASE f = "mem_alloc" -> mem_alloc(a[1], a[2])
      [] f = "mem_realloc" -> mem_realloc(a[1], a[2], a[3])
      [] f = "free_allocs" -> free_allocs(a[1])
      [] f = "skip_space" -> skip_space(a[1])
      [] f = "consume" -> consume(a[1])
      [] f = "unexpected_token" -> unexpected_token(a[1])
      [] f = "expect" -> expect(a[1], a[2])
      [] f = "hexquad_loop" -> hexquad_loop(a[1], a[2], a[3])
      [] f = "parse_hexquad" -> parse_hexquad(a[1])
      [] f = "parse_escaped_char" -> parse_escaped_char(a[1])
      [] f = "string_char" -> string_char(a[1])
      [] f = "string_loop" -> string_loop(a[1], a[2])
      [] f = "parse_raw_string" -> parse_raw_string(a[1])
      [] f = "on_node" -> on_node(a[1], a[2])
      [] f = "dom_scalar" -> dom_scalar(a[1], a[2])
      [] f = "dom_start" -> dom_start(a[1], a[2])
      [] f = "dom_end" -> dom_end(a[1])
      [] f = "cb_on_null" -> cb_on_null(a[1], a[2])
      [] f = "cb_on_boolean" -> cb_on_boolean(a[1], a[2], a[3])
      [] f = "cb_on_number" -> cb_on_number(a[1], a[2], a[3])
      [] f = "cb_on_string" -> cb_on_string(a[1], a[2], a[3])
      [] f = "cb_on_key" -> cb_on_key(a[1], a[2], a[3])
      [] f = "cb_on_array_start" -> cb_on_array_start(a[1], a[2])
      [] f = "cb_on_array_end" -> cb_on_array_end(a[1], a[2])
      [] f = "cb_on_object_start" -> cb_on_object_start(a[1], a[2])
      [] f = "cb_on_object_end" -> cb_on_object_end(a[1], a[2])
      [] f = "parse_string" -> parse_string(a[1])
      [] f = "object_loop" -> object_loop(a[1])
      [] f = "parse_object" -> parse_object(a[1])
      [] f = "array_loop" -> array_loop(a[1])
      [] f = "parse_array" -> parse_array(a[1])
      [] f = "digits_loop" -> digits_loop(a[1])
      [] f = "parse_number" -> parse_number(a[1])
      [] f = "keyword_loop" -> keyword_loop(a[1], a[2], a[3])
      [] f = "parse_keyword" -> parse_keyword(a[1], a[2])
      [] f = "parse_value" -> parse_value(a[1])
      [] f = "dom_on_error" -> dom_on_error(a[1])
      [] f = "cb_on_error" -> cb_on_error(a[1])
      [] f = "json_parse_sax" -> json_parse_sax(a[1])
      [] f = "json_parse_dom" -> json_parse_dom(a[1])

(***************************************************************************)
(* State: parser is struct json_parser (live until json_destroy_parser     *)
(* frees it), heap the C heap, call the last parse call with what the      *)
(* caller saw of it (rc: the value json_parse_sax returned, ret: the value *)
(* json_parse_dom returned), ncalls the number of parse calls so far.      *)
(***************************************************************************)
NoCall ==
    [api |-> "none", str |-> <<>>, has_on_error |-> FALSE, on_err |-> NULL,
     trapped |-> FALSE, rc |-> 0, ret |-> 0, events |-> <<>>,
     err_calls |-> <<>>, fault |-> {}, root |-> NULL, curr |-> NULL,
     head0 |-> NULL, heap0 |-> 0, nodes |-> <<>>, scans |-> <<>>]

\* json_create_parser sets alloc_head only; the other fields are written by
\* json_parse_sax before anything reads them.  uses counts the parse calls
\* this parser object has served.
NewParser ==
    [live |-> TRUE, str |-> <<>>, pos |-> 1, error |-> <<>>, line |-> 0,
     skip_space |-> 0, alloc_head |-> NULL, uses |-> 0]

Running == parser.live /\ ~call.trapped

Return(api, r) ==
    /\ parser' = [live |-> TRUE, str |-> r.str, pos |-> r.pos,
                  error |-> r.error, line |-> r.line,
                  skip_space |-> r.skip_space, alloc_head |-> r.alloc_head,
                  uses |-> parser.uses + 1]
    /\ heap' = r.heap
    /\ call' = [api |-> api, str |-> r.str, has_on_error |-> r.has_on_error,
                on_err |-> r.ctx.on_err,
                trapped |-> r.trapped, rc |-> r.rc, ret |-> r.ret,
                events |-> r.events,
                err_calls |-> r.err_calls, fault |-> r.fault,
                root |-> r.ctx.root, curr |-> r.ctx.curr,
                head0 |-> r.head0, heap0 |-> Len(heap), nodes |-> r.nodes,
                scans |-> r.scans]
    /\ ncalls' = ncalls + 1

ParseSax(str, has_on_error, env) ==
    /\ Running
    /\ Return("sax", Invoke("json_parse_sax", <<
           Start(parser, heap, str, "sax", has_on_error, NULL, env)>>))

ParseDom(str, err, env) ==
    /\ Running
    /\ Return("dom", Invoke("json_parse_dom", <<
           Start(parser, heap, str, "dom", TRUE, err, env)>>))

json_create_parser ==
    /\ ~parser.live
    /\ ~call.trapped
    /\ parser' = NewParser
    /\ UNCHANGED <<heap, call, ncalls>>

json_destroy_parser ==
    /\ Running
    /\ heap' = free_list(heap, parser.alloc_head).heap
    /\ parser' = [parser EXCEPT !.live = FALSE, !.alloc_head = NULL]
    /\ UNCHANGED <<call, ncalls>>

Init ==
    /\ parser = NewParser
    /\ heap = <<>>
    /\ call = NoCall
    /\ ncalls = 0

(***************************************************************************)
(* Inputs                                                                  *)
(***************************************************************************)
MaxStructLen == 4
MaxNumLen == 4
MaxKeywordLen == 3
MaxStringLen == 4
MaxApiLen == 2
MaxCalls == 2
MaxBudget == 1
MaxBreaks == 2

\* the concatenations of at most n fragments of F
RECURSIVE Concats(_, _)
Concats(F, n) ==
    IF n = 0 THEN {<<>>}
    ELSE LET shorter == Concats(F, n - 1)
         IN  {<<>>} \cup {f \o s : f \in F, s \in shorter}

StructFrags ==
    {Str(<<"[">>), Str(<<"]">>), Str(<<"{">>), Str(<<"}">>), Str(<<",">>),
     Str(<<":">>), Str(<<"\"", "k", "\"">>), Str(<<"1">>), Str(<<" ">>)}

NumFrags ==
    {Str(<<"-">>), Str(<<"0">>), Str(<<"1">>), Str(<<".">>), Str(<<"e">>),
     Str(<<"E">>), Str(<<"+">>), Str(<<" ">>)}

KeywordFrags ==
    {Str(<<"t">>), Str(<<"r", "u", "e">>), Str(<<"t", "r", "u">>),
     Str(<<"e">>),
     Str(<<"t", "r", "u", "e">>), Str(<<"f", "a", "l", "s", "e">>),
     Str(<<"f", "a", "l", "s">>), Str(<<"n", "u", "l", "l">>),
     Str(<<"n", "u", "l">>), Str(<<"l">>), Str(<<" ">>), Str(<<"x">>)}

StringFrags ==
    {Str(<<"\"">>), Str(<<" ">>), Str(<<"a">>), Str(<<"\n">>),
     Str(<<"\\", "n">>), Str(<<"\\", "u", "D", "8", "3", "4">>),
     Str(<<"\\", "u", "D", "D", "1", "E">>),
     Str(<<"\\", "u", "0", "0", "4", "1">>)}

\* the documents of src/test.c and of the specification's examples, and
\* malformed ones
Examples ==
    {Str(<<"{", "\"", "f", "o", "o", "\"", ":", "[", "1", ",", "2", "]", "}">>),
     Str(<<"{", " ", "\"", "f", "o", "o", "\"", " ", ":", " ", "[", " ",
            "\"", "b", "\\", "n", "a", "r", "\"", ",", " ",
            "-", "1", "e", "+", "1", ",", " ",
            "\"", "f", "o", "o", " ", "\\", "u", "D", "8", "3", "4",
            "\\", "u", "D", "D", "1", "E", " ", "\"", " ", "]", " ", "}">>),
     Str(<<"{", "\"", "a", "\"", ":", "1", ",", "}">>),
     Str(<<"{", "\"", "a", "\"", ":", "1", ",", "\"", "a", "\"", ":",
            "n", "u", "l", "l", "}">>),
     Str(<<"[", "t", "r", "u", "e", ",", "f", "a", "l", "s", "e", ",",
            "[", "]", ",", "{", "}", "]">>),
     Str(<<"-", "1", ".", "5", "e", "+", "1", "0">>),
     Str(<<"0", "1">>),
     Str(<<"[", "0", "x", "1", "0", "]">>),
     Str(<<"[", "\"", "a", "\"", ",", "\"", "b", "\"", ",", "1", "}">>),
     Str(<<"\"", "a", "a", "a", "a", "a", "a", "a", "a", "a", "a", "a", "\"">>),
     Str(<<"[", "\"", "a", "a", "a", "a", "a", "a", "a", "a", "a", "a", "a">>),
     Str(<<"t", "r", "u", "e", " ", "\r", "\n", "x">>)}

\* the four hexadecimal digits of a 16-bit unit, as a test program prints
\* them with "%04X"
HexChar(d) == IF d < 10 THEN Ord["0"] + d ELSE Ord["A"] + d - 10

Hex4(u) ==
    <<HexChar(u \div 4096), HexChar((u \div 256) % 16),
      HexChar((u \div 16) % 16), HexChar(u % 16)>>

UEscape(u) == Str(<<"\\", "u">>) \o Hex4(u)

\* strings holding one surrogate pair written as two \u escapes: every
\* high unit with some low units, every low unit with some high units
HighUnits == 55296..56319
LowUnits == 56320..57343
SomeHighUnits == {55296, 55348, 56319}
SomeLowUnits == {56320, 56606, 57343}

PairInputs ==
    {Str(<<"\"">>) \o UEscape(H) \o UEscape(L) \o Str(<<"\"">>) :
        H \in HighUnits, L \in SomeLowUnits}
    \cup {Str(<<"\"">>) \o UEscape(H) \o UEscape(L) \o Str(<<"\"">>) :
        H \in SomeHighUnits, L \in LowUnits}
    \cup {Str(<<"\"", "a">>) \o UEscape(H) \o UEscape(L) \o Str(<<"a", "\"">>) :
        H \in SomeHighUnits, L \in SomeLowUnits}

\* the pools of documents, one per part of the grammar
GrammarInputs ==
    <<Concats(StructFrags, MaxStructLen), Concats(NumFrags, MaxNumLen),
      Concats(KeywordFrags, MaxKeywordLen),
      Concats(StringFrags, MaxStringLen), Examples, PairInputs>>

\* line breaks and blanks, then a character no value starts with
LineFrags == {Str(<<"\n">>), Str(<<"\r">>), Str(<<" ">>)}

LineInputs ==
    {b \o Str(<<"x">>) : b \in Concats(LineFrags, MaxBreaks)}
    \cup {Str(<<"[", "1", ",", "\r", "\n", "\n", "2", "\r", "x">>)}

ApiInputs == Concats(StructFrags, MaxApiLen) \cup Examples \cup LineInputs

\* what a parser that has already parsed is given next
ReuseInputs ==
    {Str(<<"[", "\"", "a", "\"", ",", "1", "]">>), Str(<<"[", "1", ",">>),
     Str(<<"n", "u", "l", "l">>)}

Budgets == {0 - 1} \cup 0..MaxBudget

\* an error callback of the caller (any non-null function pointer)
ERR == 1

NoFail ==
    [budget |-> 0 - 1, moves |-> TRUE, nullcall |-> "trap",
     char_signed |-> TRUE, ctype_neg |-> FALSE]

(***************************************************************************)
(* The caller: any sequence of at most MaxCalls parse calls on one parser, *)
(* in either mode, with or without an error callback, under any behaviour  *)
(* of malloc and realloc.                                                  *)
(***************************************************************************)
Inputs == IF ncalls = 0 THEN ApiInputs ELSE ReuseInputs

SaxCall ==
    /\ ncalls < MaxCalls
    /\ Running
    /\ \E str \in Inputs, has_on_error \in BOOLEAN, b \in Budgets,
          m \in BOOLEAN :
           ParseSax(str, has_on_error,
                    [budget |-> b, moves |-> m, nullcall |-> "trap",
                     char_signed |-> TRUE, ctype_neg |-> FALSE])

DomCall ==
    /\ ncalls < MaxCalls
    /\ Running
    /\ \E str \in Inputs, err \in {NULL, ERR}, b \in Budgets, m \in BOOLEAN,
          n \in {"trap", "return"} :
           /\ err # NULL => n = "trap"
           /\ ParseDom(str, err,
                       [budget |-> b, moves |-> m, nullcall |-> n,
                        char_signed |-> TRUE, ctype_neg |-> FALSE])

Next ==
    \/ SaxCall
    \/ DomCall
    \/ json_destroy_parser
    \/ json_create_parser

Spec == Init /\ [][Next]_vars

(***************************************************************************)
(* One parse of each document of GrammarInputs by a fresh parser, in       *)
(* either mode, with an error callback and a C library that never fails.   *)
(***************************************************************************)
SaxGrammar ==
    /\ ncalls = 0
    /\ \E k \in DOMAIN GrammarInputs :
          \E str \in GrammarInputs[k] : ParseSax(str, TRUE, NoFail)

DomGrammar ==
    /\ ncalls = 0
    /\ \E k \in DOMAIN GrammarInputs :
          \E str \in GrammarInputs[k] : ParseDom(str, ERR, NoFail)

NextGrammar == SaxGrammar \/ DomGrammar

SpecGrammar == Init /\ [][NextGrammar]_vars

(***************************************************************************)
(* encode_utf8 on its own: one call on one or two code points, as          *)
(* parse_raw_string makes it (line 269).                                   *)
(***************************************************************************)
MaxCodeSamples == 100000

CodeStride == 1114111 \div MaxCodeSamples

\* code points spread over [0,0x10FFFF], and the ones around each change of
\* length
CodePoints ==
    {k * CodeStride : k \in 0..MaxCodeSamples}
    \cup {0, 1, 127, 128, 129, 2047, 2048, 2049, 55295, 55296, 57343, 57344,
          65533, 65534, 65535, 65536, 65537, 262143, 262144, 1114110,
          1114111}

\* chars = 1, or chars = 2 with U+FFFD first (line 245)
EncodeInputs ==
    {<<c>> : c \in CodePoints}
    \cup {<<65533, c>> : c \in {d \in CodePoints : d < 65536}}

EncodeCall ==
    /\ call.api = "none"
    /\ \E src \in EncodeInputs :
          LET dst == encode_utf8(src)
          IN  call' = [api |-> "encode_utf8", src |-> src, dst |-> dst,
                       ret |-> Len(dst), trapped |-> FALSE,
                       fault |-> IF Len(dst) <= 4 * Len(src) THEN {}
                                 ELSE {"assert ret <= 4 * len"}]
    /\ UNCHANGED <<parser, heap, ncalls>>

NextEncode == EncodeCall

SpecEncode == Init /\ [][NextEncode]_vars

(***************************************************************************)
(* The output buffer of parse_raw_string, one loop iteration per step.     *)
(* The input is abstracted to what the iteration hands to encode_utf8:     *)
(* one code point, or U+FFFD followed by the code point of a second        *)
(* escape that was not a low surrogate.  call holds the locals alloc and   *)
(* len, and in `pre` their values at the call of encode_utf8.              *)
(***************************************************************************)

\* what string_char can leave in buf: 1, 2, 3 and 4 byte code points, and
\* the two-element results of an unpaired high surrogate
BufferInputs ==
    {<<97>>, <<233>>, <<8364>>, <<66376>>,
     <<65533, 97>>, <<65533, 233>>, <<65533, 8364>>}

\* the growth test that only fires once the buffer is full
buffer_grow_late(L) ==
    IF L.len > L.alloc - 1
    THEN IF L.alloc > SIZE_MAX \div 3
         THEN [L EXCEPT !.error = <<"too long string">>]
         ELSE [L EXCEPT !.alloc = Shr((@ * 3) % (SIZE_MAX + 1), 1)]
    ELSE L

\* lines 260-267: the capacity after the growth test, or the error
buffer_grow(L) ==
    IF L.len > L.alloc - 6 - 1
    THEN IF L.alloc > SIZE_MAX \div 3
         THEN [L EXCEPT !.error = <<"too long string">>]
         ELSE [L EXCEPT !.alloc = Shr((@ * 3) % (SIZE_MAX + 1), 1)]
    ELSE L

\* size_t alloc = 16, len = 0; char *ret = mem_alloc(p, alloc)
BufferBegin ==
    /\ call.api = "none"
    /\ call' = [api |-> "parse_raw_string", at |-> "loop", alloc |-> 16,
                len |-> 0, pre |-> <<>>, error |-> <<>>, trapped |-> FALSE,
                fault |-> {}]
    /\ UNCHANGED <<parser, heap, ncalls>>

\* one iteration of the while loop: growth test, mem_realloc, encode_utf8
BufferStep ==
    /\ call.api = "parse_raw_string"
    /\ call.at = "loop"
    /\ LET L == [alloc |-> call.alloc, len |-> call.len, error |-> <<>>]
           G == buffer_grow(L)
       IN  \E buf \in BufferInputs :
           \E realloc_ok \in IF G.alloc # L.alloc THEN BOOLEAN ELSE {TRUE} :
           LET n == Len(encode_utf8(buf))
           IN call' =
                IF G.error # <<>>
                THEN [call EXCEPT !.at = "error", !.error = G.error]
                ELSE IF G.alloc # L.alloc /\ ~realloc_ok
                THEN [call EXCEPT !.at = "error",
                                  !.error = <<"realloc failed">>]
                ELSE [call EXCEPT
                        !.alloc = G.alloc,
                        !.len = L.len + n,
                        !.pre = [len |-> L.len, alloc |-> G.alloc,
                                 alloc0 |-> L.alloc],
                        !.fault = IF L.len + n <= G.alloc THEN @
                                  ELSE @ \cup {"buffer overrun"}]
    /\ UNCHANGED <<parser, heap, ncalls>>

\* the closing quote: assert(alloc > len); ret[len] = '\0'
BufferEnd ==
    /\ call.api = "parse_raw_string"
    /\ call.at = "loop"
    /\ call' = [call EXCEPT !.at = "done",
                   !.fault = IF call.alloc > call.len THEN @
                             ELSE @ \cup {"assert alloc > len"}]
    /\ UNCHANGED <<parser, heap, ncalls>>

NextBuffer == BufferBegin \/ BufferStep \/ BufferEnd

SpecBuffer == Init /\ [][NextBuffer]_vars

(***************************************************************************)
(* Strings of raw bytes: one call in either mode on a quoted body of       *)
(* bytes with no escapes, on a build with signed or unsigned char.         *)
(***************************************************************************)
MaxByteLen == 3

\* "a" and the bytes of U+00E9 (C3 A9), U+20AC (E2 82 AC) and U+1F600
\* (F0 9F 98 80), and the bytes 80 and FF
RawBytes == {97, 195, 169, 226, 130, 172, 240, 159, 152, 128, 255}

ByteInputs ==
    <<{Str(<<"\"">>) \o body \o Str(<<"\"">>) :
          body \in Concats({<<b>> : b \in RawBytes}, MaxByteLen)},
      {Str(<<"\"">>) \o <<240, 159, 152, 128>> \o Str(<<"\"">>)}>>

\* what the build does with a char above 0x7F
Builds ==
    {[budget |-> 0 - 1, moves |-> TRUE, nullcall |-> "trap",
      char_signed |-> s, ctype_neg |-> c] :
        s \in BOOLEAN, c \in BOOLEAN} \
    {[budget |-> 0 - 1, moves |-> TRUE, nullcall |-> "trap",
      char_signed |-> FALSE, ctype_neg |-> TRUE]}

SaxBytes ==
    /\ ncalls = 0
    /\ \E k \in DOMAIN ByteInputs :
          \E str \in ByteInputs[k], env \in Builds :
              ParseSax(str, TRUE, env)

DomBytes ==
    /\ ncalls = 0
    /\ \E k \in DOMAIN ByteInputs :
          \E str \in ByteInputs[k], env \in Builds :
              ParseDom(str, ERR, env)

NextBytes == SaxBytes \/ DomBytes

SpecBytes == Init /\ [][NextBytes]_vars

(***************************************************************************)
(* Properties                                                              *)
(***************************************************************************)
Returned == call.api # "none" /\ ~call.trapped
Succeeded == Returned /\ call.rc = 0
Failed == Returned /\ call.rc = 0 - 1

LiveBlocks(h) == {a \in 1..Len(h) : h[a].live}

\* the event stream of one value: a scalar, or a container's start, its
\* children (each child of an object after its key) and its end.
\* ValueEnd is the index just past the value that starts at i, 0 if none.
RECURSIVE ValueEnd(_, _)
RECURSIVE ItemsEnd(_, _)
RECURSIVE MembersEnd(_, _)
ValueEnd(ev, i) ==
    IF i > Len(ev) THEN 0
    ELSE IF ev[i].cb \in {"on_null", "on_boolean", "on_number", "on_string"}
    THEN i + 1
    ELSE IF ev[i].cb = "on_array_start" THEN ItemsEnd(ev, i + 1)
    ELSE IF ev[i].cb = "on_object_start" THEN MembersEnd(ev, i + 1)
    ELSE 0

ItemsEnd(ev, i) ==
    IF i > Len(ev) THEN 0
    ELSE IF ev[i].cb = "on_array_end" THEN i + 1
    ELSE IF ValueEnd(ev, i) = 0 THEN 0
    ELSE ItemsEnd(ev, ValueEnd(ev, i))

MembersEnd(ev, i) ==
    IF i > Len(ev) THEN 0
    ELSE IF ev[i].cb = "on_object_end" THEN i + 1
    ELSE IF ev[i].cb # "on_key" \/ ValueEnd(ev, i + 1) = 0 THEN 0
    ELSE MembersEnd(ev, ValueEnd(ev, i + 1))

\* the callbacks that may report the input character c
EventsFor(c) ==
    IF c = Ord["{"] THEN {"on_object_start"}
    ELSE IF c = Ord["}"] THEN {"on_object_end"}
    ELSE IF c = Ord["["] THEN {"on_array_start"}
    ELSE IF c = Ord["]"] THEN {"on_array_end"}
    ELSE IF c = Ord["\""] THEN {"on_string", "on_key"}
    ELSE IF c = Ord["t"] \/ c = Ord["f"] THEN {"on_boolean"}
    ELSE IF c = Ord["n"] THEN {"on_null"}
    ELSE IF c = Ord["-"] \/ isdigit(c) THEN {"on_number"}
    ELSE {}

InDocumentOrder(ev, str) ==
    /\ \A i \in 1..Len(ev) :
          /\ ev[i].at \in 1..Len(str)
          /\ ev[i].cb \in EventsFor(str[ev[i].at])
    /\ \A i \in 1..(Len(ev) - 1) : ev[i].at < ev[i + 1].at

FooDocument ==
    Str(<<"{", "\"", "f", "o", "o", "\"", ":", "[", "1", ",", "2", "]", "}">>)

FooEvents ==
    <<[cb |-> "on_object_start", at |-> 1, arg |-> <<>>],
      [cb |-> "on_key", at |-> 2, arg |-> Str(<<"f", "o", "o">>)],
      [cb |-> "on_array_start", at |-> 8, arg |-> <<>>],
      [cb |-> "on_number", at |-> 9, arg |-> Str(<<"1">>)],
      [cb |-> "on_number", at |-> 11, arg |-> Str(<<"2">>)],
      [cb |-> "on_array_end", at |-> 12, arg |-> <<>>],
      [cb |-> "on_object_end", at |-> 13, arg |-> <<>>]>>

\* C1: in every parse that succeeds the callbacks form the event stream of
\* exactly one value (containers well nested, every key directly before its
\* value), each event reports an input character of its kind, the events
\* are in source order, and {"foo":[1,2]} yields exactly object-start, key,
\* array-start, number, number, array-end, object-end.
C1_EventsWellNested ==
    Succeeded =>
        /\ ValueEnd(call.events, 1) = Len(call.events) + 1
        /\ InDocumentOrder(call.events, call.str)
        /\ call.str = FooDocument => call.events = FooEvents

C1_Witness ==
    /\ Succeeded
    /\ call.str = FooDocument
    /\ Len(call.events) = 7

\* C2: whenever a parse call returns failure, every block of the heap has
\* been freed and the parser's block list is empty.
C2_ArenaReleasedOnFailure ==
    Failed => parser.alloc_head = NULL /\ LiveBlocks(heap) = {}

\* a failed parse during which a string buffer was moved by a grow
C2_Witness ==
    /\ Failed
    /\ Len(heap) >= call.heap0 + 2
    /\ \E a \in (call.heap0 + 1)..Len(heap) : heap[a].size = 24

ErrorEvents(ev) == {i \in 1..Len(ev) : ev[i].cb = "on_error"}

Supplied ==
    \/ call.api = "sax" /\ call.has_on_error
    \/ call.api = "dom" /\ call.on_err # NULL

\* C3: a parse call that is given an error callback and returns failure has
\* invoked on_error exactly once, as its last callback; one that returns
\* success has not invoked it.  In tree mode the same holds of the caller's
\* callback err.
C3_ErrorReportedOnce ==
    (Returned /\ Supplied) =>
        /\ call.rc = 0 - 1 =>
              /\ ErrorEvents(call.events) = {Len(call.events)}
              /\ call.api = "dom" => Len(call.err_calls) = 1
        /\ call.rc = 0 =>
              /\ ErrorEvents(call.events) = {}
              /\ call.err_calls = <<>>

C3_Witness ==
    /\ Failed
    /\ Supplied
    /\ Len(call.events) >= 3
    /\ call.events[Len(call.events)].arg.line = 1

WhiteSpace == {Ord[" "], Ord["\t"], Ord["\n"], Ord["\r"]}

\* the offset of the first significant character of str at or after i
Ws(str, i) == Span(str, i, WhiteSpace)

\* characters that stand for themselves inside a string
Plain == (32..126) \ {Ord["\""], Ord["\\"]}

\* str is a string literal without escapes, then spaces only
IsPlainLiteral(str) ==
    LET q == Span(str, 2, Plain)
    IN  /\ CharAt(str, 1) = Ord["\""]
        /\ CharAt(str, q) = Ord["\""]
        /\ Span(str, q + 1, {Ord[" "]}) = Len(str) + 1

LiteralBody(str) == SubSeq(str, 2, Span(str, 2, Plain) - 1)

\* C4: whitespace skipping is suspended from the opening quote of a string
\* to its closing quote and active again after it: a string literal
\* without escapes decodes to exactly the characters between its quotes,
\* spaces included, and spaces after the closing quote are skipped.
C4_SpacesInStringKept ==
    (Returned /\ IsPlainLiteral(call.str)) =>
        /\ call.rc = 0
        /\ Len(call.events) = 1
        /\ call.events[1].cb = "on_string"
        /\ call.events[1].arg = LiteralBody(call.str)

\* the offset just past the number of the strict grammar that starts at i:
\* -? (0 | [1-9][0-9]*) (. [0-9]+)? ([eE] [+-]? [0-9]+)?, 0 if there is none
StrictNumberEnd(str, i) ==
    LET i1 == IF CharAt(str, i) = Ord["-"] THEN i + 1 ELSE i
        i2 == IF CharAt(str, i1) = Ord["0"] THEN i1 + 1
              ELSE IF CharAt(str, i1) \in Digits THEN Span(str, i1, Digits)
              ELSE 0
        i3 == IF i2 = 0 \/ CharAt(str, i2) # Ord["."] THEN i2
              ELSE IF CharAt(str, i2 + 1) \in Digits
              THEN Span(str, i2 + 1, Digits)
              ELSE 0
        j == IF CharAt(str, i3 + 1) \in {Ord["+"], Ord["-"]}
             THEN i3 + 2 ELSE i3 + 1
    IN  IF i3 = 0 \/ CharAt(str, i3) \notin {Ord["e"], Ord["E"]} THEN i3
        ELSE IF CharAt(str, j) \in Digits THEN Span(str, j, Digits)
        ELSE 0

StartsNumber(str) ==
    CharAt(str, Ws(str, 1)) \in Digits \cup {Ord["-"]}

\* C5: a document that starts with '-' or a digit is accepted only when
\* its text is exactly one number of the strict grammar (with whitespace
\* around it only).
C5_NumberGrammarStrict ==
    (Succeeded /\ StartsNumber(call.str)) =>
        LET e == StrictNumberEnd(call.str, Ws(call.str, 1))
        IN  e # 0 /\ Ws(call.str, e) = Len(call.str) + 1

\* the text at offset i of str is exactly the characters kw
Matches(str, i, kw) == \A k \in 1..Len(kw) : CharAt(str, i + k - 1) = kw[k]

Keywords ==
    {Str(<<"t", "r", "u", "e">>), Str(<<"f", "a", "l", "s", "e">>),
     Str(<<"n", "u", "l", "l">>)}

\* C6: a document that starts with 't', 'f' or 'n' is accepted only when
\* its text is exactly true, false or null (with whitespace around it
\* only), and no boolean or null event is emitted otherwise.
C6_KeywordExact ==
    (Returned /\ CharAt(call.str, Ws(call.str, 1)) \in
                    {Ord["t"], Ord["f"], Ord["n"]}) =>
        LET i == Ws(call.str, 1)
            exact == \E kw \in Keywords :
                        /\ Matches(call.str, i, kw)
                        /\ Ws(call.str, i + Len(kw)) = Len(call.str) + 1
        IN  /\ call.rc = 0 => exact
            /\ ~exact => \A n \in 1..Len(call.events) :
                            call.events[n].cb \notin {"on_boolean", "on_null"}

\* the structural grammar, on texts whose strings have no escapes (a
\* string is a quote, any characters but quotes, a quote): the offset just
\* past the value that starts at i, 0 if there is none
InString == (1..255) \ {Ord["\""], Ord["\\"]}

RefStringEnd(str, i) ==
    IF CharAt(str, i) = Ord["\""] /\
       CharAt(str, Span(str, i + 1, InString)) = Ord["\""]
    THEN Span(str, i + 1, InString) + 1 ELSE 0

RECURSIVE RefValueEnd(_, _)
RECURSIVE RefItemsEnd(_, _)
RECURSIVE RefMembersEnd(_, _)
RefValueEnd(str, i) ==
    LET c == CharAt(str, i)
        j == Ws(str, i + 1)
    IN  IF c = Ord["["]
        THEN IF CharAt(str, j) = Ord["]"] THEN j + 1
             ELSE RefItemsEnd(str, j)
        ELSE IF c = Ord["{"]
        THEN IF CharAt(str, j) = Ord["}"] THEN j + 1
             ELSE RefMembersEnd(str, j)
        ELSE IF c = Ord["\""] THEN RefStringEnd(str, i)
        ELSE IF c \in Digits \cup {Ord["-"]} THEN StrictNumberEnd(str, i)
        ELSE IF \E kw \in Keywords : Matches(str, i, kw)
        THEN i + Len(CHOOSE kw \in Keywords : Matches(str, i, kw))
        ELSE 0

RefItemsEnd(str, i) ==
    LET v == RefValueEnd(str, i)
        j == Ws(str, v)
    IN  IF v = 0 THEN 0
        ELSE IF CharAt(str, j) = Ord["]"] THEN j + 1
        ELSE IF CharAt(str, j) = Ord[","]
        THEN RefItemsEnd(str, Ws(str, j + 1))
        ELSE 0

RefMembersEnd(str, i) ==
    LET k == RefStringEnd(str, i)
        c == Ws(str, k)
        v == RefValueEnd(str, Ws(str, c + 1))
        j == Ws(str, v)
    IN  IF k = 0 \/ CharAt(str, c) # Ord[":"] \/ v = 0 THEN 0
        ELSE IF CharAt(str, j) = Ord["}"] THEN j + 1
        ELSE IF CharAt(str, j) = Ord[","]
        THEN RefMembersEnd(str, Ws(str, j + 1))
        ELSE 0

IsDocument(str) ==
    LET v == RefValueEnd(str, Ws(str, 1))
    IN  v # 0 /\ Ws(str, v) = Len(str) + 1

NoEscapes(str) == \A i \in 1..Len(str) : str[i] # Ord["\\"]

\* C7: a parse succeeds only if the whole input, apart from whitespace
\* around tokens, is exactly one value of the structural grammar; "[]" and
\* "{}" succeed with no children.
C7_OnlyGrammarAccepted ==
    /\ (Succeeded /\ NoEscapes(call.str)) => IsDocument(call.str)
    /\ (Returned /\ call.str \in {Str(<<"[", "]">>), Str(<<"{", "}">>)}) =>
          call.rc = 0 /\ Len(call.events) = 2

C9_ErrorCallbackOptional ==
    /\ (call.api = "dom" /\ call.on_err = NULL) =>
          /\ ~call.trapped
          /\ "call through null pointer" \notin call.fault
          /\ call.rc = 0 - 1 => call.ret = NULL /\ LiveBlocks(heap) = {}
    /\ (call.api = "dom" /\ call.on_err # NULL /\ Failed) =>
          /\ call.ret = NULL
          /\ call.err_calls = <<[line |-> parser.line, msg |-> parser.error]>>

\* the UTF-8 encoding of a code point of [0xD800,0xDFFF] occurs in bytes
HasSurrogate(bytes) ==
    \E i \in 1..(Len(bytes) - 1) :
        bytes[i] = 237 /\ bytes[i + 1] \in 160..191

\* C10: no decoded string or key contains the encoding of a code point of
\* [0xD800,0xDFFF]: every unmatched surrogate escape contributes U+FFFD.
C10_NoSurrogateDecoded ==
    \A n \in 1..Len(call.events) :
        call.events[n].cb \in {"on_string", "on_key"} =>
            ~HasSurrogate(call.events[n].arg)

\* the UTF-8 encoding of a code point (RFC 3629, section 3)
Utf8(c) ==
    IF c < 128 THEN <<c>>
    ELSE IF c < 2048 THEN <<192 + (c \div 64), 128 + (c % 64)>>
    ELSE IF c < 65536
    THEN <<224 + (c \div 4096), 128 + ((c \div 64) % 64), 128 + (c % 64)>>
    ELSE <<240 + (c \div 262144), 128 + ((c \div 4096) % 64),
           128 + ((c \div 64) % 64), 128 + (c % 64)>>

\* the value of a hexadecimal digit, and of the escape \uXXXX whose
\* backslash is at offset i of str
HexDigit(ch) ==
    IF ch \in 48..57 THEN ch - 48
    ELSE IF ch \in 65..70 THEN ch - 55 ELSE ch - 87

IsUnitAt(str, i) ==
    /\ CharAt(str, i) = Ord["\\"]
    /\ CharAt(str, i + 1) = Ord["u"]
    /\ \A k \in 2..5 : CharAt(str, i + k) \in HexDigits

UnitAt(str, i) ==
    4096 * HexDigit(str[i + 2]) + 256 * HexDigit(str[i + 3])
    + 16 * HexDigit(str[i + 4]) + HexDigit(str[i + 5])

\* characters that stand for themselves and are not whitespace
Letters == Plain \ WhiteSpace

\* the offset of the first escape of the string literal str
FirstEscape(str) == Span(str, 2, Letters)

\* str is a string literal: letters, a high unit immediately followed by a
\* low unit, both as \u escapes, letters
IsPairLiteral(str) ==
    LET i == FirstEscape(str)
    IN  /\ CharAt(str, 1) = Ord["\""]
        /\ IsUnitAt(str, i) /\ UnitAt(str, i) \in HighUnits
        /\ IsUnitAt(str, i + 6) /\ UnitAt(str, i + 6) \in LowUnits
        /\ Span(str, i + 12, Letters) = Len(str)
        /\ str[Len(str)] = Ord["\""]

\* C11: a high unit H immediately followed by a low unit L, both written as
\* \u escapes, decodes to the single code point (H << 10) + L - 0x35FDC00,
\* which is 0x10000 + ((H - 0xD800) << 10) + (L - 0xDC00), lies in
\* [0x10000,0x10FFFF] (the assertion never fails) and is emitted as exactly
\* four UTF-8 bytes.
C11_SurrogatePairDecoded ==
    (Returned /\ IsPairLiteral(call.str)) =>
        LET i == FirstEscape(call.str)
            H == UnitAt(call.str, i)
            L == UnitAt(call.str, i + 6)
            cp == 65536 + (H - 55296) * 1024 + (L - 56320)
        IN  /\ cp = H * 1024 + L - 56613888
            /\ cp \in 65536..1114111
            /\ Len(Utf8(cp)) = 4
            /\ call.rc = 0
            /\ call.fault = {}
            /\ Len(call.events) = 1
            /\ call.events[1].cb = "on_string"
            /\ call.events[1].arg =
                   SubSeq(call.str, 2, i - 1) \o Utf8(cp)
                   \o SubSeq(call.str, i + 12, Len(call.str) - 1)

\* \uD834\uDD1E has been decoded to U+1D11E, the bytes F0 9D 84 9E
C11_Witness ==
    /\ Succeeded
    /\ call.str = Str(<<"\"">>) \o UEscape(55348) \o UEscape(56606)
                  \o Str(<<"\"">>)
    /\ call.events[1].arg = <<240, 157, 132, 158>>

RECURSIVE Utf8All(_)
Utf8All(src) ==
    IF src = <<>> THEN <<>> ELSE Utf8(Head(src)) \o Utf8All(Tail(src))

\* C12: for every code point c of [0,0x10FFFF] encode_utf8 writes the
\* standard UTF-8 encoding of c (1 byte below 0x80, 2 below 0x800, 3 below
\* 0x10000, 4 otherwise; prefix 0x00/0xC0/0xE0/0xF0 with the most
\* significant bits, then 0x80 | 6-bit group, most significant group first)
\* and returns the number of bytes written, at most 4 per code point.
C12_EncodeUtf8Standard ==
    call.api = "encode_utf8" =>
        /\ call.dst = Utf8All(call.src)
        /\ call.ret = Len(call.dst)
        /\ call.ret <= 4 * Len(call.src)
        /\ call.fault = {}
        /\ \A n \in 1..Len(call.dst) : call.dst[n] \in 0..255
        /\ Len(call.src) = 1 =>
              LET c == call.src[1]
              IN  call.ret = IF c < 128 THEN 1 ELSE IF c < 2048 THEN 2
                             ELSE IF c < 65536 THEN 3 ELSE 4

\* U+10FFFF has been encoded as F4 8F BF BF
C12_Witness ==
    /\ call.api = "encode_utf8"
    /\ call.src = <<1114111>>
    /\ call.dst = <<244, 143, 191, 191>>

\* the number of line breaks among the first n characters of str: a line
\* feed, a lone carriage return, or a carriage return with the line feed
\* that immediately follows it
LineBreaks(str, n) ==
    Cardinality({i \in 1..n :
        \/ str[i] = Ord["\r"]
        \/ str[i] = Ord["\n"] /\ (i = 1 \/ str[i - 1] # Ord["\r"])})

\* C13: the line number passed to on_error is 1 plus the number of line
\* breaks before the character at which the error was raised, LF, lone CR
\* and CR LF counting once each, and the count starts at 1 in every call.
C13_ErrorLineCounted ==
    Returned =>
        /\ \A n \in ErrorEvents(call.events) :
              call.events[n].arg.line =
                  1 + LineBreaks(call.str, call.events[n].at - 1)
        /\ \A n \in 1..Len(call.err_calls) :
              \E m \in ErrorEvents(call.events) :
                  call.err_calls[n].line = call.events[m].arg.line

\* an error reported on line 4, after CR LF, LF and a lone CR
C13_Witness ==
    /\ Failed
    /\ call.str = Str(<<"[", "1", ",", "\r", "\n", "\n", "2", "\r", "x">>)
    /\ \E n \in ErrorEvents(call.events) : call.events[n].arg.line = 4

(***************************************************************************)
(* The tree of tree mode, read back from the heap and from the events      *)
(***************************************************************************)
ValueEvents ==
    {"on_null", "on_boolean", "on_number", "on_string", "on_array_start",
     "on_object_start"}

StartEvents == {"on_array_start", "on_object_start"}
EndEvents == {"on_array_end", "on_object_end"}

\* the start events still open after the first n events of ev, innermost
\* last
RECURSIVE OpenAfter(_, _)
OpenAfter(ev, n) ==
    IF n = 0 THEN <<>>
    ELSE LET before == OpenAfter(ev, n - 1)
         IN  IF ev[n].cb \in StartEvents THEN Append(before, n)
             ELSE IF ev[n].cb \in EndEvents /\ before # <<>>
             THEN SubSeq(before, 1, Len(before) - 1)
             ELSE before

\* the number of value events among the first n events of ev
Rank(ev, n) == Cardinality({m \in 1..n : ev[m].cb \in ValueEvents})

\* the node created for the value event n of the call, NULL for n = 0
NodeOf(n) == IF n = 0 THEN NULL ELSE call.nodes[Rank(call.events, n)]

Innermost(open) == IF open = <<>> THEN 0 ELSE open[Len(open)]

\* C14: in tree mode, after any prefix of the event stream, the root has
\* been set at most once, exactly one created node has no parent, every
\* other node's parent is the container that was open when it was created,
\* the current parent is an Array or Object node or empty, no container end
\* arrives with an empty parent stack, and after a successful parse the
\* parent stack is empty and the root is non-null.
C14_TreeWellFormed ==
    (Returned /\ call.api = "dom") =>
        LET ev == call.events
            values == {n \in 1..Len(ev) : ev[n].cb \in ValueEvents}
            top == Innermost(OpenAfter(ev, Len(ev)))
        IN  /\ call.fault = {}
            /\ Len(call.nodes) = Cardinality(values)
            /\ \A n \in values :
                  heap[NodeOf(n)].data.parent =
                      NodeOf(Innermost(OpenAfter(ev, n - 1)))
            /\ values # {} =>
                  /\ call.root = call.nodes[1]
                  /\ Cardinality({n \in values :
                         heap[NodeOf(n)].data.parent = NULL}) = 1
            /\ \A n \in 1..Len(ev) :
                  ev[n].cb \in EndEvents => OpenAfter(ev, n - 1) # <<>>
            /\ call.curr = NodeOf(top)
            /\ call.curr # NULL =>
                  heap[call.curr].data.type \in {"JSON_ARRAY", "JSON_OBJECT"}
            /\ call.rc = 0 => call.curr = NULL /\ call.root # NULL

\* a parse that stopped inside an object inside an array: three nodes, the
\* current parent is the object
C14_Witness ==
    /\ Failed /\ call.api = "dom"
    /\ call.str = Str(<<"[", "1", ",", "{">>)
    /\ Len(call.nodes) = 3
    /\ call.curr = call.nodes[3]

\* the value the event stream ev describes from event i on
RECURSIVE EventTree(_, _)
RECURSIVE EventItems(_, _)
RECURSIVE EventMembers(_, _)
EventTree(ev, i) ==
    IF ev[i].cb = "on_array_start"
    THEN [type |-> "JSON_ARRAY", value |-> EventItems(ev, i + 1)]
    ELSE IF ev[i].cb = "on_object_start"
    THEN [type |-> "JSON_OBJECT", value |-> EventMembers(ev, i + 1)]
    ELSE IF ev[i].cb = "on_string"
    THEN [type |-> "JSON_STRING", value |-> ev[i].arg]
    ELSE IF ev[i].cb = "on_number"
    THEN [type |-> "JSON_NUMBER", value |-> ev[i].arg]
    ELSE IF ev[i].cb = "on_boolean"
    THEN [type |-> "JSON_BOOLEAN", value |-> ev[i].arg]
    ELSE [type |-> "JSON_NULL", value |-> <<>>]

EventItems(ev, i) ==
    IF ev[i].cb = "on_array_end" THEN <<>>
    ELSE <<EventTree(ev, i)>> \o EventItems(ev, ValueEnd(ev, i))

EventMembers(ev, i) ==
    IF ev[i].cb = "on_object_end" THEN <<>>
    ELSE <<[name |-> ev[i].arg, value |-> EventTree(ev, i + 1)]>>
         \o EventMembers(ev, ValueEnd(ev, i + 1))

\* the value stored in the node at address a of heap h, read as a caller
\* of json_parse_dom reads struct json_value
RECURSIVE HeapTree(_, _)
HeapTree(h, a) ==
    LET v == h[a].data
        items == IF v.items = NULL THEN <<>> ELSE h[v.items].data
    IN  IF v.type = "JSON_ARRAY"
        THEN [type |-> v.type,
              value |-> [n \in 1..v.num |-> HeapTree(h, items[n])]]
        ELSE IF v.type = "JSON_OBJECT"
        THEN [type |-> v.type,
              value |-> [n \in 1..v.num |->
                           [name |-> h[items[n].name].data,
                            value |-> HeapTree(h, items[n].value)]]]
        ELSE IF v.type = "JSON_STRING"
        THEN [type |-> v.type, value |-> h[v.string].data]
        ELSE IF v.type = "JSON_NUMBER"
        THEN [type |-> v.type, value |-> v.number]
        ELSE IF v.type = "JSON_BOOLEAN"
        THEN [type |-> v.type, value |-> v.boolean]
        ELSE [type |-> v.type, value |-> <<>>]

\* every block the tree at a is stored in
RECURSIVE TreeBlocks(_, _)
TreeBlocks(h, a) ==
    LET v == h[a].data
        items == IF v.items = NULL THEN <<>> ELSE h[v.items].data
    IN  {a}
        \cup (IF v.type = "JSON_STRING" THEN {v.string} ELSE {})
        \cup (IF v.type \in {"JSON_ARRAY", "JSON_OBJECT"} /\ v.items # NULL
              THEN {v.items} ELSE {})
        \cup (IF v.type = "JSON_ARRAY"
              THEN UNION {TreeBlocks(h, items[n]) : n \in 1..v.num}
              ELSE IF v.type = "JSON_OBJECT"
              THEN UNION {{items[n].name} \cup TreeBlocks(h, items[n].value) :
                             n \in 1..v.num}
              ELSE {})

\* C15: the tree a successful json_parse_dom returns is the tree the event
\* stream describes: arrays hold their elements in source order, objects
\* one property per key occurrence in source order (equal keys all kept),
\* each named by the on_key event just before its value, and the pending
\* key is set whenever a child is appended to an Object.
C15_TreeMatchesEvents ==
    (Succeeded /\ call.api = "dom") =>
        /\ call.ret = call.root
        /\ "assert ctx->key" \notin call.fault
        /\ HeapTree(heap, call.root) = EventTree(call.events, 1)
        /\ TreeBlocks(heap, call.root) \subseteq LiveBlocks(heap)

\* {"a":1,"a":null} has been returned as an Object of two properties, both
\* named a
C15_Witness ==
    /\ Succeeded /\ call.api = "dom"
    /\ HeapTree(heap, call.root) =
          [type |-> "JSON_OBJECT",
           value |-> <<[name |-> Str(<<"a">>),
                        value |-> [type |-> "JSON_NUMBER",
                                   value |-> Str(<<"1">>)]],
                       [name |-> Str(<<"a">>),
                        value |-> [type |-> "JSON_NULL", value |-> <<>>]]>>]

\* the offset just past the last character before offset i of str that is
\* not whitespace
RECURSIVE StripEnd(_, _)
StripEnd(str, i) ==
    IF i > 1 /\ str[i - 1] \in WhiteSpace THEN StripEnd(str, i - 1) ELSE i

NumberEvents(ev) == {n \in 1..Len(ev) : ev[n].cb = "on_number"}

\* C16: the value on_number receives is the conversion of exactly the
\* characters parse_number consumed as the literal: the conversion starts
\* at the literal's first character and stops where the scan stopped (the
\* whitespace skipped after the literal aside).
C16_NumberTextExact ==
    Returned =>
        \A n \in NumberEvents(call.events) :
            LET k == Cardinality({m \in NumberEvents(call.events) : m <= n})
                start == call.scans[k][1]
                stop == StripEnd(call.str, call.scans[k][2])
            IN  /\ call.events[n].at = start
                /\ call.events[n].arg = SubSeq(call.str, start, stop - 1)

\* the offset of the first unescaped quote or control character (the
\* terminator included) of str at or after i
RECURSIVE BodyStop(_, _)
BodyStop(str, i) ==
    LET c == CharAt(str, i)
    IN  IF c = Ord["\""] \/ iscntrl(c) THEN i
        ELSE IF c = Ord["\\"] /\ ~iscntrl(CharAt(str, i + 1))
        THEN BodyStop(str, i + 2)
        ELSE BodyStop(str, i + 1)

\* str opens a string whose body holds an unescaped control character
\* before any closing quote
HasRawControl(str) ==
    /\ CharAt(str, 1) = Ord["\""]
    /\ iscntrl(CharAt(str, BodyStop(str, 2)))

\* C17: an unescaped control character (tab, line feed, carriage return
\* and the terminator included) anywhere between the opening quote of a
\* string and its closing quote makes the parse fail; an unterminated
\* string fails with an end-of-input error.
C17_RawControlRejected ==
    (Returned /\ HasRawControl(call.str)) =>
        /\ call.rc = 0 - 1
        /\ (NoEscapes(call.str) /\ BodyStop(call.str, 2) = Len(call.str) + 1)
              => parser.error = <<"unexpected end of input">>

\* C18: while a string is decoded every write stays inside the capacity of
\* the output buffer: at each call of encode_utf8 len + 6 < alloc, after at
\* most one growth by the factor 1.5 that never wraps; len < alloc
\* throughout, so the terminator is written in bounds and the assertion
\* alloc > len holds; a capacity whose growth would overflow is rejected.
C18_WritesInBounds ==
    call.api = "parse_raw_string" =>
        /\ call.fault = {}
        /\ call.len < call.alloc
        /\ call.alloc <= SIZE_MAX
        /\ call.pre # <<>> =>
              /\ call.pre.len + 6 < call.pre.alloc
              /\ call.pre.alloc \in
                    {call.pre.alloc0, (3 * call.pre.alloc0) \div 2}
              /\ call.pre.alloc >= call.pre.alloc0
        /\ call.error = <<"too long string">> =>
              /\ 3 * call.alloc > SIZE_MAX
              /\ call.len > call.alloc - 6 - 1

\* after eighteen growth steps the nineteenth is rejected
C18_Witness ==
    /\ call.api = "parse_raw_string"
    /\ call.error = <<"too long string">>
    /\ call.alloc = 23377
    /\ call.pre.alloc = 23377

\* C19: for every input, valid or malformed, the cursor never advances
\* past the terminating NUL: no consumption reads the terminator, the
\* cursor ends at most at the offset of the terminator, and so does every
\* offset a callback or a number scan was made at.
C19_CursorWithinInput ==
    call.api \in {"sax", "dom"} =>
        /\ parser.pos \in 1..(Len(call.str) + 1)
        /\ "read past terminator" \notin call.fault
        /\ \A n \in 1..Len(call.events) :
              call.events[n].at \in 1..(Len(call.str) + 1)
        /\ \A n \in 1..Len(call.scans) :
              /\ call.scans[n][1] <= call.scans[n][2]
              /\ call.scans[n][2] <= Len(call.str) + 1

\* an unterminated array: the parse has failed with the cursor on the
\* terminator
C19_Witness ==
    /\ Failed
    /\ call.str = Str(<<"[", "1", ",">>)
    /\ parser.pos = Len(call.str) + 1
    /\ parser.error = <<"unexpected end of input">>

\* C20: the tree a successful json_parse_dom returned stays allocated
\* until json_destroy_parser: a later parse call on the same parser, one
\* that fails included, leaves every block of the earlier tree unreleased.
C20_TreeKeptUntilDestroy ==
    [][(/\ ncalls' = ncalls + 1
        /\ call.api = "dom" /\ call.rc = 0 /\ ~call.trapped
        /\ parser.uses >= 1
        /\ TreeBlocks(heap, call.root) \subseteq LiveBlocks(heap)) =>
          TreeBlocks(heap, call.root) \subseteq LiveBlocks(heap')]_vars

\* str is a quoted body of raw bytes: no escape, no control character, no
\* quote inside, and no leading whitespace
IsRawString(str) ==
    /\ Len(str) >= 3
    /\ str[1] = Ord["\""] /\ str[Len(str)] = Ord["\""]
    /\ str[2] \notin WhiteSpace
    /\ \A i \in 2..(Len(str) - 1) : str[i] \in Plain \cup (128..255)

\* C21: a raw byte 0x80..0xFF in a string body is copied to the decoded
\* text as that same single byte, so a body without escapes decodes to
\* exactly its own bytes.
C21_RawBytesCopied ==
    (Returned /\ IsRawString(call.str)) =>
        /\ call.rc = 0
        /\ \E n \in 1..Len(call.events) :
              /\ call.events[n].cb = "on_string"
              /\ call.events[n].arg = SubSeq(call.str, 2, Len(call.str) - 1)

====
